---- MODULE Spec2Model ----
(***************************************************************************)
(* Model of the tabular data modifier pipeline: ChainModifier,             *)
(* SortModifier, RangeModifier, GroupModifier, InvertModifier and          *)
(* SeriesPointsModifier acting on a DataTable, their events and their      *)
(* class JSON.  A synchronous call is one atomic step on the table; a      *)
(* modifyTable call is a step per callback of its promise chain.           *)
(***************************************************************************)
EXTENDS Integers, Sequences, FiniteSets, TLC

VARIABLES
    table,      \* the DataTable handed to modify (mutated in place)
    before,     \* the table (the instance, for class JSON) as it was when
                \* the last operation started
    first,      \* the table as it was at construction time
    modifier,   \* the modifier under call: its kind and options
    modifiers,  \* ChainModifier.modifiers, the chain's stored sequence
    inserted,   \* the modifiers in the order the chain was built with
    reverse,    \* ChainModifier.options.reverse
    op,         \* name of the last operation ("init" before any)
    calls,      \* number of modify calls made so far
    events,     \* the events emitted by the last operation, in order
    result,     \* the reference the last operation returned, or the one
                \* its promise resolved with
    json,       \* the class JSON last written or about to be read
    promise,    \* the promise chain of a pending modifyTable call
    modified,   \* table.modified, the table's secondary modified view
    args,       \* what the last call was handed besides the table
    frame       \* the local variables of a ChainModifier.modify call that
                \* is under way, for listeners that run in between

vars == <<table, before, first, modifier, modifiers, inserted, reverse, op,
          calls, events, result, json, promise, modified, args,
          frame>>

(***************************************************************************)
(* Bounds                                                                  *)
(***************************************************************************)
MaxRows == 2        \* rows of a table to invert
MaxCols == 2        \* columns of a table to invert
MaxCalls == 3       \* modify calls in a row on one table
MaxChain == 2       \* modifiers a chain is built with
MaxRanges == 2      \* entries of RangeModifier.options.ranges

(***************************************************************************)
(* Cells.  A cell is a boolean, number, string, undefined or a nested      *)
(* table; t is what typeof / instanceof tell about it.                     *)
(***************************************************************************)
Num(n) == [t |-> "number", n |-> n, s |-> ""]
Str(s) == [t |-> "string", n |-> 0, s |-> s]
Bool(b) == [t |-> "boolean", n |-> IF b THEN 1 ELSE 0, s |-> ""]
Undefined == [t |-> "undefined", n |-> 0, s |-> ""]
Nested(tbl) == [t |-> "table", n |-> 0, s |-> "", table |-> tbl]

TypeOf(cell) == IF cell.t = "table" THEN "object" ELSE cell.t

\* Decimal numerals of the small non-negative integers.
Digits == <<"0", "1", "2", "3", "4", "5", "6", "7", "8", "9">>

IsIndexKey(s) == \E i \in 1..Len(Digits) : Digits[i] = s

IndexOfKey(s) == CHOOSE i \in 1..Len(Digits) : Digits[i] = s

\* `${i}` for a row index i.
NumToString(i) == Digits[i + 1]

\* `${column}` for a cell of a column.
CellToString(cell) ==
    CASE cell.t = "string" -> cell.s
      [] cell.t = "number" -> IF cell.n >= 0 /\ cell.n < Len(Digits)
                                 THEN NumToString(cell.n) ELSE "NaN"
      [] cell.t = "boolean" -> IF cell.n = 1 THEN "true" ELSE "false"
      [] cell.t = "undefined" -> "undefined"
      [] OTHER -> "[object Object]"

(***************************************************************************)
(* Sequence helpers                                                        *)
(***************************************************************************)
\* Array.prototype.indexOf, 1-based; 0 stands for -1 (not found).
IndexOf(seq, x) ==
    IF \E i \in 1..Len(seq) : seq[i] = x
        THEN CHOOSE i \in 1..Len(seq) :
                 seq[i] = x /\ \A j \in 1..(i - 1) : seq[j] # x
        ELSE 0

Reverse(seq) == [i \in 1..Len(seq) |-> seq[Len(seq) + 1 - i]]

SeqsUpTo(S, n) == UNION {[1..k -> S] : k \in 0..n}

Max(a, b) == IF a > b THEN a ELSE b

\* No value: no class JSON, no promise.
Null == [null |-> TRUE]

\* References to tables: the one handed to modify, and none.
TableRef == 1
NoRef == 0

\* this.emit({ type, detail, table }): the event with the table as the
\* listener finds it.
Emit(type, by, t) == [type |-> type, by |-> by, table |-> t]

\* this.emit({ type, detail, modifier })
EmitModifier(type, by, m) == [type |-> type, by |-> by, modifier |-> m]

\* this.emit({ type, detail })
EmitPlain(type, by) == [type |-> type, by |-> by]

\* A modify that hands out a table of its own.
ModifierReturnsNew(m, ref) == ref + 1

\* return table: every leaf modifier returns the reference it was given.
ModifierReturns(m, ref) ==
    CASE m.kind = "Sort" -> ref
      [] m.kind = "Range" -> ref
      [] m.kind = "Group" -> ref
      [] m.kind = "Invert" -> ref

\* The types of a sequence of events.
Types(evs) == [i \in 1..Len(evs) |-> evs[i].type]

(***************************************************************************)
(* DataTable: column names in key order and one cell sequence per column.  *)
(* All columns have the same length, the row count.                        *)
(***************************************************************************)
EmptyTable == [names |-> <<>>, cols |-> <<>>]

getColumnNames(t) == t.names

getRowCount(t) == IF t.names = <<>> THEN 0 ELSE Len(t.cols[1])

hasColumn(t, name) == IndexOf(t.names, name) # 0

getColumn(t, name) == t.cols[IndexOf(t.names, name)]

getRow(t, i) == [j \in 1..Len(t.names) |-> t.cols[j][i]]

getRows(t) == [i \in 1..getRowCount(t) |-> getRow(t, i)]

\* deleteColumns([name]): the table without that column.
deleteColumn(t, name) ==
    LET k == IndexOf(t.names, name)
        keep == SelectSeq([j \in 1..Len(t.names) |-> j], LAMBDA j : j # k)
    IN  [names |-> [j \in 1..Len(keep) |-> t.names[keep[j]]],
         cols |-> [j \in 1..Len(keep) |-> t.cols[keep[j]]]]

\* deleteColumns(): no column is left, and so no row.
deleteColumns(t) == EmptyTable

\* Position of a new key among the keys of an object: integer-like keys
\* come first in ascending order, other keys follow in insertion order.
KeyPosition(names, name) ==
    IF IsIndexKey(name)
        THEN 1 + Cardinality({j \in 1..Len(names) :
                 IsIndexKey(names[j]) /\ IndexOfKey(names[j]) < IndexOfKey(name)})
        ELSE Len(names) + 1

\* columns[name] = column on a column collection.
SetKey(coll, name, column) ==
    LET k == IndexOf(coll.names, name)
        p == KeyPosition(coll.names, name)
    IN  IF k # 0
            THEN [coll EXCEPT !.cols[k] = column]
            ELSE [names |-> SubSeq(coll.names, 1, p - 1) \o <<name>>
                               \o SubSeq(coll.names, p, Len(coll.names)),
                  cols |-> SubSeq(coll.cols, 1, p - 1) \o <<column>>
                               \o SubSeq(coll.cols, p, Len(coll.cols))]

Pad(column, n) ==
    [i \in 1..n |-> IF i <= Len(column) THEN column[i] ELSE Undefined]

RECURSIVE MaxLength(_)
MaxLength(cols) ==
    IF cols = <<>> THEN 0 ELSE Max(Len(Head(cols)), MaxLength(Tail(cols)))

RECURSIVE SetKeys(_, _, _)
SetKeys(t, coll, j) ==
    IF j > Len(coll.names) THEN t
    ELSE SetKeys(SetKey(t, coll.names[j], coll.cols[j]), coll, j + 1)

\* setColumns(collection): every column of the collection replaces or
\* extends the table's columns; all columns end with the same length.
setColumns(t, coll) ==
    LET set == SetKeys(t, coll, 1)
        n == MaxLength(set.cols)
    IN  [names |-> set.names,
         cols |-> [j \in 1..Len(set.cols) |-> Pad(set.cols[j], n)]]

\* deleteRows(): every column is emptied, the columns stay.
deleteRows(t) ==
    [names |-> t.names, cols |-> [j \in 1..Len(t.names) |-> <<>>]]

\* Writes one array row at 1-based position i (i <= row count + 1).
SetRowAt(t, row, i) ==
    [names |-> t.names,
     cols |-> [j \in 1..Len(t.names) |->
                 LET cell == IF j <= Len(row) THEN row[j] ELSE Undefined
                 IN  IF i <= Len(t.cols[j])
                         THEN [t.cols[j] EXCEPT ![i] = cell]
                         ELSE Append(t.cols[j], cell)]]

\* setRows(rows, rowIndex) with array rows; i is the 1-based rowIndex + 1.
RECURSIVE setRows(_, _, _)
setRows(t, rows, i) ==
    IF rows = <<>> THEN t
    ELSE setRows(SetRowAt(t, Head(rows), i), Tail(rows), i + 1)

\* setRows(rows): the rows are appended after the last row.
appendRows(t, rows) == setRows(t, rows, getRowCount(t) + 1)

(***************************************************************************)
(* InvertModifier                                                          *)
(***************************************************************************)
RECURSIVE RowsToColumns(_, _, _, _)
\* for (i = 0; i < iEnd; ++i) columns[keys[i]] = table.getRow(i)
RowsToColumns(t, keys, i, columns) ==
    IF i > getRowCount(t) THEN columns
    ELSE RowsToColumns(t, keys, i + 1,
             SetKey(columns,
                    IF i <= Len(keys) THEN keys[i] ELSE "undefined",
                    getRow(t, i)))

\* A modify without the test for columnNames: every table is a regular table.
InvertModifyRegular(t) ==
    LET keys == [i \in 1..getRowCount(t) |-> NumToString(i - 1)]
        rows == RowsToColumns(t, keys, 1, EmptyTable)
        columns == SetKey(rows, "columnNames",
                       [j \in 1..Len(t.names) |-> Str(t.names[j])])
    IN  setColumns(deleteColumns(t), columns)

InvertModify(t) ==
    IF hasColumn(t, "columnNames")
        THEN \* inverted table
            LET deleted == getColumn(t, "columnNames")
                rest == deleteColumn(t, "columnNames")
                columnNames == [i \in 1..Len(deleted) |-> CellToString(deleted[i])]
                columns == RowsToColumns(rest, columnNames, 1, EmptyTable)
            IN  setColumns(deleteColumns(rest), columns)
        ELSE \* regular table
            LET keys == [i \in 1..getRowCount(t) |-> NumToString(i - 1)]
                rows == RowsToColumns(t, keys, 1, EmptyTable)
                columns == SetKey(rows, "columnNames",
                               [j \in 1..Len(t.names) |-> Str(t.names[j])])
            IN  setColumns(deleteColumns(t), columns)

\* The events of InvertModifier.modify.
InvertEvents(t) ==
    <<Emit("modify", [kind |-> "Invert"], t),
      Emit("afterModify", [kind |-> "Invert"], InvertModify(t))>>

(***************************************************************************)
(* Comparison of cells as JavaScript's < and > operators do it             *)
(***************************************************************************)
\* Every string the model uses, in code unit order.
StringOrder ==
    <<"", "0", "1", "2", "3", "4", "5", "6", "7", "8", "9", "NaN",
      "[object Object]", "a", "b", "columnNames", "false", "groupBy", "id",
      "rank", "table", "true", "undefined", "value", "x", "y", "z">>

StringRank(s) == IndexOf(StringOrder, s)

NaN == [nan |-> TRUE, v |-> 0]

\* ToPrimitive: an object becomes its string form.
ToPrimitive(cell) ==
    IF cell.t = "table" THEN Str("[object Object]") ELSE cell

\* ToNumber of a primitive.
ToNumber(cell) ==
    CASE cell.t = "number" -> [nan |-> FALSE, v |-> cell.n]
      [] cell.t = "boolean" -> [nan |-> FALSE, v |-> cell.n]
      [] cell.t = "string" ->
            IF cell.s = "" THEN [nan |-> FALSE, v |-> 0]
            ELSE IF IsIndexKey(cell.s)
                THEN [nan |-> FALSE, v |-> IndexOfKey(cell.s) - 1]
                ELSE NaN
      [] OTHER -> NaN

\* a < b
JSLess(a, b) ==
    LET pa == ToPrimitive(a)
        pb == ToPrimitive(b)
    IN  IF pa.t = "string" /\ pb.t = "string"
            THEN StringRank(pa.s) < StringRank(pb.s)
            ELSE /\ ~ToNumber(pa).nan
                 /\ ~ToNumber(pb).nan
                 /\ ToNumber(pa).v < ToNumber(pb).v

\* a <= b
JSLessEq(a, b) ==
    LET pa == ToPrimitive(a)
        pb == ToPrimitive(b)
    IN  IF pa.t = "string" /\ pb.t = "string"
            THEN StringRank(pa.s) <= StringRank(pb.s)
            ELSE /\ ~ToNumber(pa).nan
                 /\ ~ToNumber(pb).nan
                 /\ ToNumber(pa).v <= ToNumber(pb).v

\* Truthiness of a cell.
Truthy(cell) ==
    CASE cell.t = "undefined" -> FALSE
      [] cell.t = "number" -> cell.n # 0
      [] cell.t = "boolean" -> cell.n = 1
      [] cell.t = "string" -> cell.s # ""
      [] OTHER -> TRUE

\* (a || 0)
OrZero(cell) == IF Truthy(cell) THEN cell ELSE Num(0)

(***************************************************************************)
(* SortModifier                                                            *)
(***************************************************************************)
\* An ascending comparator that takes the cells as they are, without || 0.
ascendingRaw(a, b) ==
    IF JSLess(a, b) THEN -1
    ELSE IF JSLess(b, a) THEN 1
    ELSE 0

ascending(a, b) ==
    IF JSLess(OrZero(a), OrZero(b)) THEN -1
    ELSE IF JSLess(OrZero(b), OrZero(a)) THEN 1
    ELSE 0

\* A descending comparator that never reports a tie.
descendingNoTie(a, b) ==
    IF JSLess(OrZero(b), OrZero(a)) THEN -1 ELSE 1

descending(a, b) ==
    IF JSLess(OrZero(b), OrZero(a)) THEN -1
    ELSE IF JSLess(OrZero(a), OrZero(b)) THEN 1
    ELSE 0

\* The comparators picked the wrong way round.
compareSwapped(direction, a, b) ==
    IF direction = "asc" THEN descending(a, b) ELSE ascending(a, b)

compare(direction, a, b) ==
    IF direction = "asc" THEN ascending(a, b) ELSE descending(a, b)

\* Array.prototype.sort, which is stable: a reference is placed behind
\* every reference that does not compare greater than it.
InsertReference(sorted, ref, direction, k) ==
    LET behind == {i \in 1..Len(sorted) :
                      compare(direction, sorted[i].row[k], ref.row[k]) > 0}
        p == IF behind = {} THEN Len(sorted) + 1
             ELSE CHOOSE i \in behind : \A j \in behind : i <= j
    IN  SubSeq(sorted, 1, p - 1) \o <<ref>> \o SubSeq(sorted, p, Len(sorted))

RECURSIVE SortReferences(_, _, _)
SortReferences(refs, direction, k) ==
    IF refs = <<>> THEN <<>>
    ELSE InsertReference(
             SortReferences(SubSeq(refs, 1, Len(refs) - 1), direction, k),
             refs[Len(refs)], direction, k)

\* setCell(rowIndex, columnName, cellValue); a missing column is created.
setCell(t, i, name, cell) ==
    LET k == IndexOf(t.names, name)
    IN  IF k # 0
            THEN [t EXCEPT !.cols[k][i] = cell]
            ELSE setColumns(t, [names |-> <<name>>,
                                cols |-> <<[j \in 1..i |->
                                    IF j = i THEN cell ELSE Undefined]>>])

RECURSIVE WriteOrderInPlace(_, _, _, _)
\* A loop that writes i into row i, whichever row came out at position i.
WriteOrderInPlace(t, refs, name, i) ==
    IF i > Len(refs) THEN t
    ELSE WriteOrderInPlace(setCell(t, i, name, Num(i - 1)), refs, name, i + 1)

RECURSIVE WriteOrder(_, _, _, _)
\* for (i = 0; i < rowsLength; ++i) setCell(rowReferences[i].index, ..., i)
WriteOrder(t, refs, name, i) ==
    IF i > Len(refs) THEN t
    ELSE WriteOrder(setCell(t, refs[i].index, name, Num(i - 1)),
                    refs, name, i + 1)

RECURSIVE WriteRows(_, _, _)
\* for (i = 0; i < rowsLength; ++i) setRows([rowReferences[i].row], i)
WriteRows(t, refs, i) ==
    IF i > Len(refs) THEN t
    ELSE WriteRows(setRows(t, <<refs[i].row>>, i), refs, i + 1)

SortModify(m, t) ==
    LET orderByColumnIndex == IndexOf(getColumnNames(t), m.orderByColumn)
        rows == getRows(t)
        rowReferences == [i \in 1..Len(rows) |-> [index |-> i, row |-> rows[i]]]
        sorted == IF orderByColumnIndex # 0
                      THEN SortReferences(rowReferences, m.direction,
                                          orderByColumnIndex)
                      ELSE rowReferences
    IN  IF m.orderInColumn # ""
            THEN WriteOrder(t, sorted, m.orderInColumn, 1)
            ELSE WriteRows(t, sorted, 1)

\* A modify that emits execute only once the table is written.
SortEventsLate(m, t) ==
    <<Emit("execute", m, SortModify(m, t)),
      Emit("afterExecute", m, SortModify(m, t))>>

\* The events of SortModifier.modify: execute on entry, afterExecute
\* before returning.
SortEvents(m, t) ==
    <<Emit("execute", m, t), Emit("afterExecute", m, SortModify(m, t))>>

(***************************************************************************)
(* Sorting: a table with an id column (the original row index) and the     *)
(* column y to order by.                                                   *)
(***************************************************************************)
MaxSortRows == 3

SortCells == {Num(-1), Num(0), Num(1), Num(2), Num(3), Undefined}

SortTables(maxRows) ==
    {[names |-> <<"id", "y">>,
      cols |-> <<[i \in 1..Len(y) |-> Num(i - 1)], y>>] :
         y \in SeqsUpTo(SortCells, maxRows)}

SortModifiers ==
    [kind : {"Sort"}, direction : {"asc", "desc"},
     orderByColumn : {"y", "id", "z"}, orderInColumn : {"", "rank"}]

NoChain ==
    /\ modifiers = <<>>
    /\ inserted = <<>>
    /\ reverse = FALSE

\* Nothing was emitted, returned, serialized or left pending yet.
Idle ==
    /\ events = <<>>
    /\ result = NoRef
    /\ json = Null
    /\ promise = Null
    /\ modified = EmptyTable
    /\ args = <<>>
    /\ frame = Null

InitSort ==
    /\ table \in SortTables(MaxSortRows)
    /\ before = table
    /\ first = table
    /\ modifier \in SortModifiers
    /\ NoChain
    /\ op = "init"
    /\ calls = 0
    /\ Idle

SortCall ==
    /\ calls < MaxCalls
    /\ table' = SortModify(modifier, table)
    /\ events' = SortEvents(modifier, table)
    /\ result' = ModifierReturns(modifier, TableRef)
    /\ before' = table
    /\ op' = "modify"
    /\ calls' = calls + 1
    /\ UNCHANGED <<first, modifier, modifiers, inserted, reverse, json,
                   promise, modified, args, frame>>

NextSort == SortCall

SpecSort == InitSort /\ [][NextSort]_vars

(***************************************************************************)
(* Properties of sorting                                                   *)
(***************************************************************************)
\* The value a cell of the ordered column is compared as: undefined is 0.
KeyValue(cell) == IF cell.t = "undefined" THEN 0 ELSE cell.n

\* The call just made reordered rows by a column the table has.
Reordered ==
    /\ op = "modify"
    /\ modifier.kind = "Sort"
    /\ modifier.orderInColumn = ""
    /\ hasColumn(before, modifier.orderByColumn)

KeyColumn(t) == getColumn(t, modifier.orderByColumn)

\* Position of the row with the given id cell in a table.
PositionOf(t, id) == IndexOf(getColumn(t, "id"), id)

Bijections(n) ==
    {p \in [1..n -> 1..n] : \A i, j \in 1..n : p[i] = p[j] => i = j}

\* C5: sorting is stable in both directions: two rows whose ordered values
\* compare equal (undefined as 0) keep their relative order.
C5_SortStable ==
    Reordered =>
        \A i, j \in 1..getRowCount(table) :
            (/\ i < j
             /\ KeyValue(KeyColumn(table)[i]) = KeyValue(KeyColumn(table)[j]))
            => PositionOf(before, getColumn(table, "id")[i])
                   < PositionOf(before, getColumn(table, "id")[j])

\* A descending sort moved rows and left two tied rows in the result.
C5_Witness ==
    /\ Reordered
    /\ modifier.direction = "desc"
    /\ modifier.orderByColumn = "y"
    /\ table # before
    /\ \E i, j \in 1..getRowCount(table) :
           /\ i < j
           /\ KeyValue(KeyColumn(table)[i]) = KeyValue(KeyColumn(table)[j])

\* C6: reordering leaves the ordered values non-decreasing for asc and
\* non-increasing for desc, the rows being a permutation of the original
\* rows; [3,1,2] gives indices [1,2,0] for asc and [0,2,1] for desc.
C6_SortOrdered ==
    Reordered =>
        /\ getColumnNames(table) = getColumnNames(before)
        /\ getRowCount(table) = getRowCount(before)
        /\ \E p \in Bijections(getRowCount(before)) :
               \A i \in 1..getRowCount(before) :
                   getRow(table, i) = getRow(before, p[i])
        /\ \A i \in 1..(getRowCount(table) - 1) :
               IF modifier.direction = "asc"
                   THEN KeyValue(KeyColumn(table)[i])
                            <= KeyValue(KeyColumn(table)[i + 1])
                   ELSE KeyValue(KeyColumn(table)[i])
                            >= KeyValue(KeyColumn(table)[i + 1])
        /\ (/\ getColumn(before, "y") = <<Num(3), Num(1), Num(2)>>
            /\ getColumn(before, "id") = <<Num(0), Num(1), Num(2)>>
            /\ modifier.orderByColumn = "y")
           => getColumn(table, "id") =
                  IF modifier.direction = "asc"
                      THEN <<Num(1), Num(2), Num(0)>>
                      ELSE <<Num(0), Num(2), Num(1)>>

\* The values [3,1,2] were sorted ascending, an undefined cell aside.
C6_Witness ==
    /\ Reordered
    /\ modifier.direction = "asc"
    /\ modifier.orderByColumn = "y"
    /\ getColumn(before, "y") = <<Num(3), Num(1), Num(2)>>
    /\ getColumn(table, "y") = <<Num(1), Num(2), Num(3)>>

(***************************************************************************)
(* Inverting: tables of up to MaxCols columns and MaxRows rows; the column *)
(* names may include columnNames and the index-like name "0", and stand in *)
(* the order a column collection keeps its keys in.                        *)
(***************************************************************************)
InvertNames(maxCols) ==
    {n \in SeqsUpTo({"x", "0", "columnNames"}, maxCols) :
        /\ \A i, j \in 1..Len(n) : n[i] = n[j] => i = j
        /\ \A i \in 1..Len(n) : KeyPosition(SubSeq(n, 1, i - 1), n[i]) = i}

InvertCells == {Num(1), Str("a"), Undefined}

InitInvert ==
    /\ \E n \in InvertNames(MaxCols), r \in 0..MaxRows :
           \E c \in [1..Len(n) -> [1..r -> InvertCells]] :
               table = [names |-> n, cols |-> c]
    /\ before = table
    /\ first = table
    /\ modifier = [kind |-> "Invert"]
    /\ NoChain
    /\ op = "init"
    /\ calls = 0
    /\ Idle

InvertCall ==
    /\ calls < MaxCalls
    /\ table' = InvertModify(table)
    /\ events' = InvertEvents(table)
    /\ result' = ModifierReturns(modifier, TableRef)
    /\ before' = table
    /\ op' = "modify"
    /\ calls' = calls + 1
    /\ UNCHANGED <<first, modifier, modifiers, inserted, reverse, json,
                   promise, modified, args, frame>>

NextInvert == InvertCall

SpecInvert == InitInvert /\ [][NextInvert]_vars

(***************************************************************************)
(* Properties of inverting                                                 *)
(***************************************************************************)
\* C4: inverting twice a table without a columnNames column gives the
\* same column names in the same order and the same cells.
C4_InvertInvolution ==
    (calls = 2 /\ ~hasColumn(first, "columnNames")) => table = first

(***************************************************************************)
(* RangeModifier                                                           *)
(***************************************************************************)
\* switch (typeof cell): boolean, number and string pass
Comparable(cell) == TypeOf(cell) \in {"boolean", "number", "string"}

\* A scan that does not compare the type of the cell when strict.
RangeMatchesAnyType(t, range, strict) ==
    IF strict /\ TypeOf(range.minValue) # TypeOf(range.maxValue)
        THEN <<>>
        ELSE LET rangeColumn == IF hasColumn(t, range.column)
                                    THEN getColumn(t, range.column)
                                    ELSE <<>>
                 passes(j) ==
                     /\ Comparable(rangeColumn[j])
                     /\ JSLessEq(range.minValue, rangeColumn[j])
                     /\ JSLessEq(rangeColumn[j], range.maxValue)
             IN  SelectSeq([j \in 1..Len(rangeColumn) |-> j], passes)

\* The 1-based row indices the inner loop collects for one range.
RangeMatches(t, range, strict) ==
    IF strict /\ TypeOf(range.minValue) # TypeOf(range.maxValue)
        THEN <<>>
        ELSE LET rangeColumn == IF hasColumn(t, range.column)
                                    THEN getColumn(t, range.column)
                                    ELSE <<>>
                 passes(j) ==
                     /\ Comparable(rangeColumn[j])
                     /\ ~(strict /\ TypeOf(rangeColumn[j]) # TypeOf(range.minValue))
                     /\ JSLessEq(range.minValue, rangeColumn[j])
                     /\ JSLessEq(rangeColumn[j], range.maxValue)
             IN  SelectSeq([j \in 1..Len(rangeColumn) |-> j], passes)

RECURSIVE RangeRowsOnce(_, _, _, _, _)
\* A collection that takes every row index once only.
RangeRowsOnce(t, ranges, strict, i, found) ==
    IF i > Len(ranges) THEN [k \in 1..Len(found) |-> getRow(t, found[k])]
    ELSE RangeRowsOnce(t, ranges, strict, i + 1,
             found \o SelectSeq(RangeMatches(t, ranges[i], strict),
                         LAMBDA j : \A k \in 1..Len(found) : found[k] # j))

RECURSIVE RangeRows(_, _, _, _, _)
\* for (i = 0; i < ranges.length; ++i) ... rows.push(table.getRow(j))
RangeRows(t, ranges, strict, i, rows) ==
    IF i > Len(ranges) THEN rows
    ELSE LET matches == RangeMatches(t, ranges[i], strict)
         IN  RangeRows(t, ranges, strict, i + 1,
                 rows \o [k \in 1..Len(matches) |-> getRow(t, matches[k])])

\* A modify that replaces the rows without looking at ranges.length.
RangeModifyAlways(m, t) ==
    appendRows(deleteRows(t), RangeRows(t, m.ranges, m.strict, 1, <<>>))

\* A modify that leaves the table alone when no row was collected.
RangeModifyKeep(m, t) ==
    IF RangeRows(t, m.ranges, m.strict, 1, <<>>) # <<>>
        THEN appendRows(deleteRows(t), RangeRows(t, m.ranges, m.strict, 1, <<>>))
        ELSE t

RangeModify(m, t) ==
    IF Len(m.ranges) # 0
        THEN appendRows(deleteRows(t), RangeRows(t, m.ranges, m.strict, 1, <<>>))
        ELSE t

\* The events of RangeModifier.modify.
RangeEvents(m, t) ==
    <<Emit("execute", m, t), Emit("afterExecute", m, RangeModify(m, t))>>

(***************************************************************************)
(* Filtering: a table with an id column and a column x of mixed cells.     *)
(***************************************************************************)
MaxRangeRows == 2

RangeCells ==
    {Num(1), Num(3), Str("1"), Str("a"), Bool(TRUE), Undefined}
        \cup {Nested(EmptyTable)}

RangeTables(maxRows) ==
    {[names |-> <<"id", "x">>,
      cols |-> <<[i \in 1..Len(x) |-> Num(i - 1)], x>>] :
         x \in SeqsUpTo(RangeCells, maxRows)}

RangeOptions ==
    {[column |-> "x", minValue |-> Num(1), maxValue |-> Num(2)],
     [column |-> "x", minValue |-> Str("1"), maxValue |-> Str("a")],
     [column |-> "x", minValue |-> Num(1), maxValue |-> Str("a")],
     [column |-> "id", minValue |-> Num(0), maxValue |-> Num(0)],
     [column |-> "z", minValue |-> Num(1), maxValue |-> Num(2)]}

RangeModifiers(maxRanges) ==
    [kind : {"Range"}, ranges : SeqsUpTo(RangeOptions, maxRanges),
     strict : BOOLEAN]

InitRange ==
    /\ table \in RangeTables(MaxRangeRows)
    /\ before = table
    /\ first = table
    /\ modifier \in RangeModifiers(MaxRanges)
    /\ NoChain
    /\ op = "init"
    /\ calls = 0
    /\ Idle

RangeCall ==
    /\ calls < MaxCalls
    /\ getRowCount(table) <= MaxRangeRows
    /\ table' = RangeModify(modifier, table)
    /\ events' = RangeEvents(modifier, table)
    /\ result' = ModifierReturns(modifier, TableRef)
    /\ before' = table
    /\ op' = "modify"
    /\ calls' = calls + 1
    /\ UNCHANGED <<first, modifier, modifiers, inserted, reverse, json,
                   promise, modified, args, frame>>

NextRange == RangeCall

SpecRange == InitRange /\ [][NextRange]_vars

(***************************************************************************)
(* Properties of filtering                                                 *)
(***************************************************************************)
\* The call just made filtered by a non-empty list of ranges.
Filtered ==
    /\ op = "modify"
    /\ modifier.kind = "Range"
    /\ Len(modifier.ranges) # 0

\* Row j of t lies in the range r: it has a boolean, number or string
\* value v in r.column with r.minValue <= v <= r.maxValue and, when
\* strict, v, r.minValue and r.maxValue are of one type.
InRange(t, j, r, strict) ==
    /\ hasColumn(t, r.column)
    /\ LET v == getColumn(t, r.column)[j]
       IN  /\ v.t \in {"boolean", "number", "string"}
           /\ JSLessEq(r.minValue, v)
           /\ JSLessEq(v, r.maxValue)
           /\ strict => (v.t = r.minValue.t /\ v.t = r.maxValue.t)

RowSet(t) == {getRow(t, i) : i \in 1..getRowCount(t)}

\* C7: a row is in the output if and only if it lies in some configured
\* range; a cell that is not boolean, number or string retains no row.
C7_RangeInclusion ==
    Filtered =>
        /\ getColumnNames(table) = getColumnNames(before)
        /\ RowSet(table) \subseteq RowSet(before)
        /\ \A j \in 1..getRowCount(before) :
               getRow(before, j) \in RowSet(table)
                   <=> \E i \in 1..Len(modifier.ranges) :
                           InRange(before, j, modifier.ranges[i], modifier.strict)

\* A strict filter kept one row and dropped another of the first table.
C7_Witness ==
    /\ Filtered
    /\ calls = 1
    /\ modifier.strict
    /\ getRowCount(before) = 2
    /\ getRowCount(table) = 1

RECURSIVE Concat(_)
Concat(seqs) == IF seqs = <<>> THEN <<>> ELSE Head(seqs) \o Concat(Tail(seqs))

\* The rows of t lying in the range r, in row order.
RowsInRange(t, r, strict) ==
    LET js == SelectSeq([j \in 1..getRowCount(t) |-> j],
                        LAMBDA j : InRange(t, j, r, strict))
    IN  [k \in 1..Len(js) |-> getRow(t, js[k])]

\* C8: the output is the concatenation, in list order, of each range's
\* matches in row order, without deduplication: a row lying in k of the
\* ranges is in the output k times.
C8_RangeConcatenation ==
    Filtered =>
        /\ getRows(table) =
               Concat([i \in 1..Len(modifier.ranges) |->
                   RowsInRange(before, modifier.ranges[i], modifier.strict)])
        /\ calls = 1 =>
               \A j \in 1..getRowCount(before) :
                   Cardinality({p \in 1..getRowCount(table) :
                                   getRow(table, p) = getRow(before, j)})
                       = Cardinality({i \in 1..Len(modifier.ranges) :
                             InRange(before, j, modifier.ranges[i],
                                     modifier.strict)})

\* A row of the first table lying in two ranges is in the output twice.
C8_Witness ==
    /\ Filtered
    /\ calls = 1
    /\ \E j \in 1..getRowCount(before) :
           /\ Cardinality({i \in 1..Len(modifier.ranges) :
                  InRange(before, j, modifier.ranges[i], modifier.strict)}) = 2
           /\ Cardinality({p \in 1..getRowCount(table) :
                  getRow(table, p) = getRow(before, j)}) = 2

(***************************************************************************)
(* GroupModifier.  The options validValues and invalidValues are a list    *)
(* or unset.                                                               *)
(***************************************************************************)
Unset == [isSet |-> FALSE, values |-> <<>>]

List(values) == [isSet |-> TRUE, values |-> values]

\* A grouping that takes the option as it is, without the default.
GroupColumnOption(m, t) == m.groupColumn

\* modifier.options.groupColumn || table.getColumnNames()[0]
GroupColumn(m, t) ==
    IF m.groupColumn # "" THEN m.groupColumn
    ELSE IF getColumnNames(t) = <<>> THEN "undefined"
    ELSE getColumnNames(t)[1]

\* A test of the values that forgets the list of valid values.
SkippedIfInvalid(m, value) ==
    \/ value.t = "table"
    \/ m.invalidValues.isSet /\ IndexOf(m.invalidValues.values, value) # 0

\* value instanceof DataTable || invalidValues has it || validValues lacks it
Skipped(m, value) ==
    \/ value.t = "table"
    \/ m.invalidValues.isSet /\ IndexOf(m.invalidValues.values, value) # 0
    \/ m.validValues.isSet /\ IndexOf(m.validValues.values, value) = 0

\* new DataTable() with setRows([table.getRowObject(i)])
RowObjectTable(t, i) ==
    SetKeys(EmptyTable,
            [names |-> t.names,
             cols |-> [j \in 1..Len(t.names) |-> <<t.cols[j][i]>>]], 1)

RECURSIVE GroupRows(_, _, _, _, _, _)
\* for (i = 0; i < valueColumn.length; ++i) ...
GroupRows(m, t, groupColumn, valueColumn, i, groups) ==
    IF i > Len(valueColumn) THEN groups
    ELSE LET value == valueColumn[i]
             valueIndex == IndexOf(groups.valueGroups, value)
         IN  GroupRows(m, t, groupColumn, valueColumn, i + 1,
                 IF value.t = "undefined" \/ Skipped(m, value)
                     THEN groups
                 ELSE IF valueIndex = 0
                     THEN [byGroups |-> Append(groups.byGroups, Str(groupColumn)),
                           tableGroups |-> Append(groups.tableGroups,
                                                  RowObjectTable(t, i)),
                           valueGroups |-> Append(groups.valueGroups, value)]
                 ELSE [groups EXCEPT !.tableGroups[valueIndex] =
                           appendRows(@, <<getRow(t, i)>>)])

GroupModify(m, t) ==
    LET groupColumn == GroupColumn(m, t)
        valueColumn == IF hasColumn(t, groupColumn)
                           THEN getColumn(t, groupColumn) ELSE <<>>
        groups == GroupRows(m, t, groupColumn, valueColumn, 1,
                      [byGroups |-> <<>>, tableGroups |-> <<>>,
                       valueGroups |-> <<>>])
    IN  setColumns(deleteColumns(t),
            [names |-> <<"groupBy", "table", "value">>,
             cols |-> <<groups.byGroups,
                        [g \in 1..Len(groups.tableGroups) |->
                            Nested(groups.tableGroups[g])],
                        groups.valueGroups>>])

\* The events of GroupModifier.modify.
GroupEvents(m, t) ==
    <<Emit("modify", m, t), Emit("afterModify", m, GroupModify(m, t))>>

(***************************************************************************)
(* Grouping: a table with a column k of group values and an id column, or  *)
(* a table without columns.                                                *)
(***************************************************************************)
MaxGroupRows == 3

GroupCells == {Str("a"), Str("b"), Num(1), Undefined, Nested(EmptyTable)}

GroupTables(maxRows) ==
    {EmptyTable} \cup
    {[names |-> <<"k", "id">>,
      cols |-> <<k, [i \in 1..Len(k) |-> Num(i - 1)]>>] :
         k \in SeqsUpTo(GroupCells, maxRows)}

GroupModifiers ==
    [kind : {"Group"},
     groupColumn : {"", "id", "z"},
     validValues : {Unset, List(<<>>), List(<<Str("a")>>),
                    List(<<Str("a"), Num(1)>>)},
     invalidValues : {Unset, List(<<Str("a")>>), List(<<Str("b"), Num(0)>>)}]

InitGroup ==
    /\ table \in GroupTables(MaxGroupRows)
    /\ before = table
    /\ first = table
    /\ modifier \in GroupModifiers
    /\ NoChain
    /\ op = "init"
    /\ calls = 0
    /\ Idle

GroupCall ==
    /\ calls < MaxCalls
    /\ table' = GroupModify(modifier, table)
    /\ events' = GroupEvents(modifier, table)
    /\ result' = ModifierReturns(modifier, TableRef)
    /\ before' = table
    /\ op' = "modify"
    /\ calls' = calls + 1
    /\ UNCHANGED <<first, modifier, modifiers, inserted, reverse, json,
                   promise, modified, args, frame>>

NextGroup == GroupCall

SpecGroup == InitGroup /\ [][NextGroup]_vars

(***************************************************************************)
(* Properties of grouping                                                  *)
(***************************************************************************)
Grouped == op = "modify" /\ modifier.kind = "Group"

\* The grouping column of the call just made: the option or, when that
\* is empty, the first column name of the table.
GroupedBy ==
    IF modifier.groupColumn # "" THEN modifier.groupColumn
    ELSE IF before.names = <<>> THEN "" ELSE before.names[1]

\* The cells of the grouping column, none if the table lacks the column.
GroupValues ==
    IF \E j \in 1..Len(before.names) : before.names[j] = GroupedBy
        THEN getColumn(before, GroupedBy) ELSE <<>>

InList(list, value) == \E i \in 1..Len(list) : list[i] = value

\* Row j of the table before the call is retained.
Retained(j) ==
    /\ GroupValues[j].t \notin {"undefined", "table"}
    /\ modifier.invalidValues.isSet
           => ~InList(modifier.invalidValues.values, GroupValues[j])
    /\ modifier.validValues.isSet
           => InList(modifier.validValues.values, GroupValues[j])

RetainedValues == {GroupValues[j] : j \in {i \in 1..Len(GroupValues) : Retained(i)}}

FirstSeen(value) ==
    CHOOSE j \in 1..Len(GroupValues) :
        GroupValues[j] = value /\ \A i \in 1..(j - 1) : GroupValues[i] # value

\* The rows of the table before the call with the given group value.
RowsOfValue(value) ==
    LET js == SelectSeq([j \in 1..Len(GroupValues) |-> j],
                        LAMBDA j : GroupValues[j] = value)
    IN  [i \in 1..Len(js) |-> getRow(before, js[i])]

\* C9: the groups are the retained values in first-seen order; each
\* subtable has the original column names and exactly the rows of its
\* value in row order; excluded rows are in no subtable and make no group.
C9_GroupPartition ==
    Grouped =>
        LET value == getColumn(table, "value")
            sub == getColumn(table, "table")
        IN  /\ {value[g] : g \in 1..Len(value)} = RetainedValues
            /\ \A g, h \in 1..Len(value) :
                   g < h => FirstSeen(value[g]) < FirstSeen(value[h])
            /\ \A g \in 1..Len(value) :
                   /\ sub[g].t = "table"
                   /\ getColumnNames(sub[g].table) = getColumnNames(before)
                   /\ getRows(sub[g].table) = RowsOfValue(value[g])
            /\ \A j \in 1..Len(GroupValues) :
                   Cardinality({g \in 1..Len(value) :
                       \E i \in 1..getRowCount(sub[g].table) :
                           getRow(sub[g].table, i) = getRow(before, j)})
                       = IF Retained(j) THEN 1 ELSE 0
            /\ (/\ GroupValues = <<Str("a"), Str("b"), Str("a")>>
                /\ ~modifier.validValues.isSet
                /\ ~modifier.invalidValues.isSet)
               => /\ value = <<Str("a"), Str("b")>>
                  /\ getRowCount(sub[1].table) = 2
                  /\ getRowCount(sub[2].table) = 1

\* The values a, b, a were grouped with b listed as invalid.
C9_Witness ==
    /\ Grouped
    /\ calls = 1
    /\ GroupValues = <<Str("a"), Str("b"), Str("a")>>
    /\ modifier.invalidValues.isSet
    /\ getColumn(table, "value") = <<Str("a")>>
    /\ getRowCount(getColumn(table, "table")[1].table) = 2

\* C10: the table has exactly the columns groupBy, table and value, each
\* as long as there are distinct retained values; every groupBy entry
\* names the grouping column and value[i] is the key of the rows of table[i].
C10_GroupColumns ==
    Grouped =>
        /\ getColumnNames(table) = <<"groupBy", "table", "value">>
        /\ \A c \in 1..3 : Len(table.cols[c]) = Cardinality(RetainedValues)
        /\ \A g \in 1..getRowCount(table) :
               /\ getColumn(table, "groupBy")[g] = Str(GroupedBy)
               /\ LET sub == getColumn(table, "table")[g].table
                  IN  /\ getRowCount(sub) > 0
                      /\ \A i \in 1..getRowCount(sub) :
                             getColumn(sub, GroupedBy)[i]
                                 = getColumn(table, "value")[g]

\* Grouping by the table's first column, the option being empty, made
\* fewer groups than the table had rows.
C10_Witness ==
    /\ Grouped
    /\ calls = 1
    /\ modifier.groupColumn = ""
    /\ getRowCount(before) = 3
    /\ getRowCount(table) = 2
    /\ getColumn(table, "groupBy") = <<Str("k"), Str("k")>>

(***************************************************************************)
(* ChainModifier                                                           *)
(***************************************************************************)
\* modifier.modify(table) of a child of the chain
ModifierModify(m, t) ==
    CASE m.kind = "Sort" -> SortModify(m, t)
      [] m.kind = "Range" -> RangeModify(m, t)
      [] m.kind = "Group" -> GroupModify(m, t)
      [] m.kind = "Invert" -> InvertModify(t)

\* The local modifiers of ChainModifier.modify: the stored array itself,
\* reversed in place, or a copy of it.
ChainOrder(stored, rev) == IF rev THEN Reverse(stored) ELSE stored

\* this.modifiers once the local modifiers were computed: reverse()
\* reverses the stored array in place, slice() leaves it alone.
ChainStored(stored, rev) == IF rev THEN Reverse(stored) ELSE stored

\* A loop that hands the table it was given to the last child only.
ChainApplyLast(order, i, t) ==
    IF order = <<>> THEN t ELSE ModifierModify(order[Len(order)], t)

RECURSIVE ChainApply(_, _, _)
\* for (i = 0; i < modifiers.length; ++i) table = modifiers[i].modify(table)
ChainApply(order, i, t) ==
    IF i > Len(order) THEN t
    ELSE ChainApply(order, i + 1, ModifierModify(order[i], t))

ChainModify(stored, rev, t) == ChainApply(ChainOrder(stored, rev), 1, t)

\* The events a child of the chain emits in its modify.
ModifierEvents(m, t) ==
    CASE m.kind = "Sort" -> SortEvents(m, t)
      [] m.kind = "Range" -> RangeEvents(m, t)
      [] m.kind = "Group" -> GroupEvents(m, t)
      [] m.kind = "Invert" -> InvertEvents(t)

\* The chain as the emitter of its events.
ChainSelf == [kind |-> "Chain"]

RECURSIVE ChainLoopEventsNoAfter(_, _, _)
\* A loop that emits nothing once a child has returned.
ChainLoopEventsNoAfter(order, i, t) ==
    IF i > Len(order) THEN <<>>
    ELSE <<EmitModifier("executeModifier", ChainSelf, order[i])>>
         \o ModifierEvents(order[i], t)
         \o ChainLoopEventsNoAfter(order, i + 1, ModifierModify(order[i], t))

RECURSIVE ChainLoopEvents(_, _, _)
\* The loop of ChainModifier.modify: executeModifier, the child's modify
\* with the events of its own, afterExecuteModifier.
ChainLoopEvents(order, i, t) ==
    IF i > Len(order) THEN <<>>
    ELSE <<EmitModifier("executeModifier", ChainSelf, order[i])>>
         \o ModifierEvents(order[i], t)
         \o <<EmitModifier("afterExecuteModifier", ChainSelf, order[i])>>
         \o ChainLoopEvents(order, i + 1, ModifierModify(order[i], t))

ChainEvents(stored, rev, t) ==
    <<Emit("execute", ChainSelf, t)>>
    \o ChainLoopEvents(ChainOrder(stored, rev), 1, t)
    \o <<Emit("afterExecute", ChainSelf, ChainModify(stored, rev, t))>>

RECURSIVE ChainLoopReturns(_, _, _)
\* table = modifier.modify(table): the reference a child returns is the
\* one the next child gets, and the last one is returned.
ChainLoopReturns(order, i, ref) ==
    IF i > Len(order) THEN ref
    ELSE ChainLoopReturns(order, i + 1, ModifierReturns(order[i], ref))

ChainReturns(stored, rev, ref) ==
    ChainLoopReturns(ChainOrder(stored, rev), 1, ref)

(***************************************************************************)
(* Chaining: a chain built with up to MaxChain modifiers, called on a      *)
(* table with an id column and a column y.                                 *)
(***************************************************************************)
MaxChainRows == 2

ChainTables(maxRows) ==
    {[names |-> <<"id", "y">>,
      cols |-> <<[i \in 1..Len(y) |-> Num(i - 1)], y>>] :
         y \in SeqsUpTo({Num(1), Num(2), Num(3)}, maxRows)}

ChainPool ==
    {[kind |-> "Sort", direction |-> "desc", orderByColumn |-> "y",
      orderInColumn |-> ""],
     [kind |-> "Range", strict |-> FALSE,
      ranges |-> <<[column |-> "y", minValue |-> Num(1), maxValue |-> Num(2)]>>],
     [kind |-> "Group", groupColumn |-> "y", validValues |-> Unset,
      invalidValues |-> Unset],
     [kind |-> "Invert"]}

InitChain ==
    /\ table \in ChainTables(MaxChainRows)
    /\ before = table
    /\ first = table
    /\ modifier = [kind |-> "Chain"]
    /\ modifiers \in SeqsUpTo(ChainPool, MaxChain)
    /\ inserted = modifiers
    /\ reverse \in BOOLEAN
    /\ op = "init"
    /\ calls = 0
    /\ Idle

ChainCall ==
    /\ calls < MaxCalls
    /\ table' = ChainModify(modifiers, reverse, table)
    /\ modifiers' = ChainStored(modifiers, reverse)
    /\ events' = ChainEvents(modifiers, reverse, table)
    /\ result' = ChainReturns(modifiers, reverse, TableRef)
    /\ before' = table
    /\ op' = "modify"
    /\ calls' = calls + 1
    /\ UNCHANGED <<first, modifier, inserted, reverse, json, promise,
                   modified, args, frame>>

NextChain == ChainCall

SpecChain == InitChain /\ [][NextChain]_vars

(***************************************************************************)
(* Properties of chaining                                                  *)
(***************************************************************************)
\* C1: after any number of modify calls, with reverse true or false, the
\* chain's stored sequence holds the modifiers it was built with, in the
\* same order.
C1_StoredOrderKept == modifiers = inserted

\* C2: a chain built as [A,B] with reverse false gives the table
\* B.modify(A.modify(T)): the children run in stored order, each on the
\* table the previous one returned.
C2_ChainComposition ==
    (op = "modify" /\ ~reverse /\ Len(inserted) = 2) =>
        table = ModifierModify(inserted[2], ModifierModify(inserted[1], before))

\* A chain [A,B] was called whose children do not commute on the table.
C2_Witness ==
    /\ op = "modify"
    /\ ~reverse
    /\ Len(inserted) = 2
    /\ table # before
    /\ table # ModifierModify(inserted[1], ModifierModify(inserted[2], before))

\* C3: every modify call on a chain built as [A,B] with reverse true, the
\* first and every later one, gives the table of the chain [B,A], that is
\* A.modify(B.modify(T)).
C3_ReverseEveryCall ==
    (op = "modify" /\ reverse /\ Len(inserted) = 2) =>
        table = ModifierModify(inserted[1], ModifierModify(inserted[2], before))

(***************************************************************************)
(* Class JSON.  An instance is its kind with its options (and, for a       *)
(* chain, its modifiers); options are records of the keys that are set.    *)
(***************************************************************************)
\* The $class each toJSON writes.
ClassName(kind) ==
    CASE kind = "Chain" -> "ChainModifier"
      [] kind = "Sort" -> "SortModifier"
      [] kind = "Range" -> "RangeModifier"
      [] kind = "Group" -> "GroupModifier"
      [] kind = "Invert" -> "InvertModifier"
      [] kind = "SeriesPoints" -> "SeriesPointsModifier"

defaultOptions(kind) ==
    CASE kind = "Chain" -> [modifier |-> "Chain", reverse |-> FALSE]
      [] kind = "Sort" -> [modifier |-> "Order", direction |-> "desc",
                           orderByColumn |-> "y"]
      [] kind = "Range" -> [modifier |-> "Range", strict |-> FALSE,
                            ranges |-> <<>>]
      [] kind = "Group" -> [modifier |-> "Group", groupColumn |-> ""]
      [] kind = "Invert" -> [modifier |-> "InvertModifier"]
      [] kind = "SeriesPoints" -> [modifier |-> "SeriesPoints"]

\* merge(a, b): the keys of both, those of b winning.
Merge(a, b) ==
    [k \in DOMAIN a \cup DOMAIN b |-> IF k \in DOMAIN b THEN b[k] ELSE a[k]]

\* new XModifier(options): this.options = merge(defaultOptions, options)
New(kind, options) ==
    [kind |-> kind, options |-> Merge(defaultOptions(kind), options)]

\* new ChainModifier(options, ...modifiers)
NewChain(options, children) ==
    [kind |-> "Chain", options |-> Merge(defaultOptions("Chain"), options),
     modifiers |-> children]

RECURSIVE toJSON(_)
\* toJSON of every class: $class and a copy of the options; a chain adds
\* the class JSON of each modifier, in order.
toJSON(x) ==
    IF x.kind = "Chain"
        THEN [class |-> ClassName(x.kind),
              modifiers |-> [i \in 1..Len(x.modifiers) |->
                                 toJSON(x.modifiers[i])],
              options |-> x.options]
        ELSE [class |-> ClassName(x.kind), options |-> x.options]

\* The classes registered with DataJSON.addClass.
ClassRegistry ==
    {"ChainModifier", "RangeModifier", "GroupModifier", "InvertModifier",
     "SeriesPointsModifier"}

RECURSIVE fromJSON(_)
RECURSIVE ChainFromJSON(_)

\* The static fromJSON of the registered leaf classes:
\* return new XModifier(json.options)
LeafFromJSON(cj) ==
    CASE cj.class = "RangeModifier" -> New("Range", cj.options)
      [] cj.class = "GroupModifier" -> New("Group", cj.options)
      [] cj.class = "InvertModifier" -> New("Invert", cj.options)
      [] cj.class = "SeriesPointsModifier" ->
             New("SeriesPoints", cj.options)

\* DataJSON.fromJSON(json): the fromJSON of the class registered under
\* json.$class, undefined without one.
fromJSON(cj) ==
    IF cj.class \notin ClassRegistry THEN Null
    ELSE IF cj.class = "ChainModifier" THEN ChainFromJSON(cj)
    ELSE LeafFromJSON(cj)

\* A loop that stops at the first child without a registered class.
ChainFromJSONBreak(cj) ==
    LET made == [i \in 1..Len(cj.modifiers) |-> fromJSON(cj.modifiers[i])]
        good == {i \in 0..Len(made) : \A j \in 1..i : made[j] # Null}
        n == CHOOSE i \in good : \A j \in good : j <= i
    IN  NewChain(cj.options, SubSeq(made, 1, n))

\* ChainModifier.fromJSON: every child that DataJSON.fromJSON converts is
\* pushed, in order.
ChainFromJSON(cj) ==
    LET made == [i \in 1..Len(cj.modifiers) |-> fromJSON(cj.modifiers[i])]
    IN  NewChain(cj.options, SelectSeq(made, LAMBDA m : m # Null))

(***************************************************************************)
(* Serialization: an instance is written to class JSON and class JSON is   *)
(* read back, from toJSON or written by hand with children of a class      *)
(* nobody registered.                                                      *)
(***************************************************************************)
MaxJSON == 3        \* modifiers of a serialized chain

JSONLeaves ==
    {New("Sort", [direction |-> "asc"]),
     New("Range", [ranges |-> <<[column |-> "y", minValue |-> Num(1),
                                 maxValue |-> Num(2)]>>]),
     New("Group", [groupColumn |-> "y"]),
     New("Invert", [modifier |-> "InvertModifier"]),
     New("SeriesPoints", [aliasMap |-> <<[alias |-> "x", source |-> "y"]>>])}

JSONInstances(maxChain) ==
    JSONLeaves \cup
    {NewChain([reverse |-> r], c) :
         r \in BOOLEAN, c \in SeqsUpTo(JSONLeaves, maxChain)}

UnknownJSON == [class |-> "FooModifier", options |-> [modifier |-> "Foo"]]

JSONInputs(maxChain) ==
    {[class |-> "ChainModifier", modifiers |-> c, options |-> [reverse |-> r]] :
         r \in BOOLEAN,
         c \in SeqsUpTo({toJSON(x) : x \in JSONLeaves} \cup {UnknownJSON},
                        maxChain)}

InitJSON ==
    /\ \/ modifier \in JSONInstances(MaxJSON) /\ json = Null
       \/ modifier = Null /\ json \in JSONInputs(MaxJSON)
    /\ before = Null
    /\ table = EmptyTable
    /\ first = table
    /\ NoChain
    /\ op = "init"
    /\ calls = 0
    /\ events = <<>>
    /\ result = NoRef
    /\ promise = Null
    /\ modified = EmptyTable
    /\ args = <<>>
    /\ frame = Null

\* json = modifier.toJSON()
ToJSONCall ==
    /\ calls < MaxCalls
    /\ modifier # Null
    /\ json' = toJSON(modifier)
    /\ before' = modifier
    /\ op' = "toJSON"
    /\ calls' = calls + 1
    /\ UNCHANGED <<table, first, modifier, modifiers, inserted, reverse,
                   events, result, promise, modified, args, frame>>

\* modifier = DataJSON.fromJSON(json)
FromJSONCall ==
    /\ calls < MaxCalls
    /\ json # Null
    /\ modifier' = fromJSON(json)
    /\ before' = modifier
    /\ op' = "fromJSON"
    /\ calls' = calls + 1
    /\ UNCHANGED <<table, first, modifiers, inserted, reverse, json, events,
                   result, promise, modified, args, frame>>

NextJSON == ToJSONCall \/ FromJSONCall

SpecJSON == InitJSON /\ [][NextJSON]_vars

\* C11: for a modifier x of any kind (Chain, Sort, Range, Group, Invert,
\* SeriesPoints), reading x.toJSON() back gives a modifier whose toJSON()
\* equals x.toJSON(); for a chain, every child record is there, in order.
C11_RoundTrip ==
    (op = "fromJSON" /\ before # Null /\ json = toJSON(before)) =>
        (modifier # Null /\ toJSON(modifier) = json)

\* C12: a chain read from class JSON holds the instances of exactly the
\* children whose class is registered, in the order of the record; a child
\* of an unknown class is left out and the others are kept.
C12_UnknownChildOmitted ==
    (op = "fromJSON" /\ json.class = "ChainModifier") =>
        LET known == SelectSeq(json.modifiers,
                               LAMBDA c : c.class \in ClassRegistry)
        IN  /\ modifier # Null
            /\ modifier.modifiers = [i \in 1..Len(known) |-> fromJSON(known[i])]
            /\ modifier.options = Merge(defaultOptions("Chain"), json.options)

\* A chain was read whose record has a child of an unknown class between
\* two children of registered classes.
C12_Witness ==
    /\ op = "fromJSON"
    /\ json.class = "ChainModifier"
    /\ Len(json.modifiers) = 3
    /\ json.modifiers[2] = UnknownJSON
    /\ json.modifiers[1].class = "RangeModifier"
    /\ json.modifiers[3].class = "InvertModifier"
    /\ Len(modifier.modifiers) = 2
    /\ modifier.modifiers[1].kind = "Range"
    /\ modifier.modifiers[2].kind = "Invert"

(***************************************************************************)
(* Editing a chain: add, remove and clear on this.modifiers.  A modifier   *)
(* is an instance, found in the array by identity.                         *)
(***************************************************************************)
MaxEdit == 3        \* modifiers a chain is edited up to

Min(a, b) == IF a < b THEN a ELSE b

\* Array.prototype.splice(start, deleteCount), start counted from 0 and
\* from the end when negative: the array that is left.
Splice(seq, start, deleteCount) ==
    LET len == Len(seq)
        from == IF start < 0 THEN Max(len + start, 0) ELSE Min(start, len)
        count == Min(Max(deleteCount, 0), len - from)
    IN  SubSeq(seq, 1, from) \o SubSeq(seq, from + count + 1, len)

\* this.modifiers.push(modifier)
\* An add that keeps the chain free of duplicates.
ChainAddOnce(stored, m) ==
    IF IndexOf(stored, m) # 0 THEN stored ELSE Append(stored, m)

ChainAdd(stored, m) == Append(stored, m)

\* A removal from all positions of the chain.
ChainRemoveAll(stored, m) == SelectSeq(stored, LAMBDA x : x # m)

\* modifiers.splice(modifiers.indexOf(modifier), 1)
ChainRemove(stored, m) == Splice(stored, IndexOf(stored, m) - 1, 1)

\* this.modifiers.length = 0
ChainClear(stored) == <<>>

InitEdit ==
    /\ table = EmptyTable
    /\ before = <<>>
    /\ first = table
    /\ modifier = ChainSelf
    /\ modifiers = <<>>
    /\ inserted = <<>>
    /\ reverse = FALSE
    /\ op = "init"
    /\ calls = 0
    /\ Idle

\* ChainModifier.add(m)
AddCall ==
    \E m \in ChainPool :
        /\ Len(modifiers) < MaxEdit
        /\ events' = <<EmitModifier("addModifier", ChainSelf, m),
                       EmitModifier("addModifier", ChainSelf, m)>>
        /\ modifiers' = ChainAdd(modifiers, m)
        /\ before' = modifiers
        /\ op' = "add"
        /\ UNCHANGED <<table, first, modifier, inserted, reverse, calls,
                       result, json, promise, modified, args, frame>>

\* ChainModifier.remove(m)
RemoveCall ==
    \E m \in ChainPool :
        /\ events' = <<EmitModifier("removeModifier", ChainSelf, m),
                       EmitModifier("afterRemoveModifier", ChainSelf, m)>>
        /\ modifiers' = ChainRemove(modifiers, m)
        /\ before' = modifiers
        /\ op' = "remove"
        /\ UNCHANGED <<table, first, modifier, inserted, reverse, calls,
                       result, json, promise, modified, args, frame>>

\* ChainModifier.clear()
ClearCall ==
    /\ events' = <<EmitPlain("clearChain", ChainSelf),
                   EmitPlain("afterClearChain", ChainSelf)>>
    /\ modifiers' = ChainClear(modifiers)
    /\ before' = modifiers
    /\ op' = "clear"
    /\ UNCHANGED <<table, first, modifier, inserted, reverse, calls, result,
                   json, promise, modified, args, frame>>

NextEdit == AddCall \/ RemoveCall \/ ClearCall

SpecEdit == InitEdit /\ [][NextEdit]_vars

\* C13: add, remove and clear each emit their pair of events once, the
\* first before the change and the second after it: addModifier and
\* afterAddModifier, removeModifier and afterRemoveModifier, clearChain and
\* afterClearChain.
C13_EditEvents ==
    /\ op = "add" => Types(events) = <<"addModifier", "afterAddModifier">>
    /\ op = "remove" =>
           Types(events) = <<"removeModifier", "afterRemoveModifier">>
    /\ op = "clear" => Types(events) = <<"clearChain", "afterClearChain">>

TableBeforeChild(i) == IF i = 1 THEN before ELSE events[4 * i - 4].table

\* C15: one modify call of a chain emits execute; then for each child, in
\* the order the call runs them, executeModifier, the events of the child's
\* own modify on the table the previous child left, afterExecuteModifier;
\* then afterExecute.  Without children it emits execute and afterExecute
\* and the table is as it was.
C15_ChainEvents ==
    op = "modify" =>
        LET n == Len(modifiers)
        IN  /\ Len(events) = 4 * n + 2
            /\ events[1] = Emit("execute", ChainSelf, before)
            /\ events[4 * n + 2] = Emit("afterExecute", ChainSelf, table)
            /\ \A i \in 1..n :
                   /\ events[4 * i - 2] =
                          EmitModifier("executeModifier", ChainSelf,
                                       modifiers[i])
                   /\ events[4 * i - 1].by = modifiers[i]
                   /\ events[4 * i - 1].type \in {"execute", "modify"}
                   /\ events[4 * i - 1].table = TableBeforeChild(i)
                   /\ events[4 * i].by = modifiers[i]
                   /\ events[4 * i].type \in {"afterExecute", "afterModify"}
                   /\ events[4 * i].table =
                          ModifierModify(modifiers[i], TableBeforeChild(i))
                   /\ events[4 * i + 1] =
                          EmitModifier("afterExecuteModifier", ChainSelf,
                                       modifiers[i])
            /\ n = 0 => table = before

\* A chain of two different children was called on a table that both of
\* them change.
C15_Witness ==
    /\ op = "modify"
    /\ Len(modifiers) = 2
    /\ modifiers[1] # modifiers[2]
    /\ Len(events) = 10
    /\ events[4].table # before
    /\ events[8].table # events[4].table
    /\ events[10].table = table

(***************************************************************************)
(* SeriesPointsModifier.modifyTable.  The call returns a promise; its      *)
(* callback emits modify and chains one renameColumn per alias, and each   *)
(* rename is a deferred value that resolves in a later step.               *)
(***************************************************************************)
MaxAliases == 2     \* entries of SeriesPointsModifier.options.aliasMap

\* renameColumn(from, to): the column gets the new name, when there is one
\* of the old name.
renameColumn(t, from, to) ==
    IF hasColumn(t, from) /\ from # to
        THEN deleteColumn(SetKey(t, to, getColumn(t, from)), from)
        ELSE t

\* Object.keys(aliasMap): the aliases in the order of the map.
Aliases(aliasMap) == [i \in 1..Len(aliasMap) |-> aliasMap[i].alias]

\* aliasMap[alias]
SourceOf(aliasMap, alias) ==
    LET i == CHOOSE j \in 1..Len(aliasMap) : aliasMap[j].alias = alias
    IN  aliasMap[i].source

\* A chain in which every rename hangs on the promise the loop began with.
RenameAfterFirst(i) == 0

\* promise = promise.then(() => table.renameColumn(...)): the rename of alias
\* i runs once the promise of alias i - 1 is resolved, the first one on
\* DataPromise.resolve().
RenameAfter(i) == i - 1

\* No call is pending: the pipeline is used by one call at a time.
Settled(p) == IF p = Null THEN TRUE ELSE p.state = "resolved"

\* The promise that RenameAfter names is resolved.
Resolved(p, i) == i = 0 \/ i \in p.resolved

AliasMaps(maxAliases) ==
    {a \in SeqsUpTo([alias : {"a", "b", "x"}, source : {"x", "y", "z"}],
                    maxAliases) :
         /\ \A i, j \in 1..Len(a) : a[i].alias = a[j].alias => i = j
         /\ \A i \in 1..Len(a) : a[i].alias # a[i].source}

SeriesPointsTables ==
    {[names |-> <<"x", "y">>, cols |-> <<<<Num(1)>>, <<Num(2)>>>>],
     [names |-> <<"y">>, cols |-> <<<<Num(2), Num(3)>>>>],
     EmptyTable}

InitSeriesPoints ==
    /\ table \in SeriesPointsTables
    /\ before = table
    /\ first = table
    /\ \E a \in AliasMaps(MaxAliases) :
           modifier = [kind |-> "SeriesPoints", aliasMap |-> a]
    /\ NoChain
    /\ op = "init"
    /\ calls = 0
    /\ Idle

\* modifyTable(table): DataPromise.resolve(this).then(callback) is returned,
\* the callback has not run.
ModifyTableCall ==
    /\ calls < MaxCalls
    /\ Settled(promise)
    /\ promise' = [state |-> "pending", run |-> FALSE, started |-> {},
                   resolved |-> {}, renames |-> <<>>]
    /\ events' = <<>>
    /\ result' = NoRef
    /\ before' = table
    /\ op' = "modifyTable"
    /\ calls' = calls + 1
    /\ UNCHANGED <<table, first, modifier, modifiers, inserted, reverse, json,
                   modified, args, frame>>

\* The callback: modify is emitted and the renames are chained.
ModifyTableRun ==
    /\ promise # Null
    /\ promise.state = "pending"
    /\ ~promise.run
    /\ promise' = [promise EXCEPT !.run = TRUE]
    /\ events' = Append(events, Emit("modify", modifier, table))
    /\ UNCHANGED <<table, before, first, modifier, modifiers, inserted,
                   reverse, op, calls, result, json, modified, args, frame>>

\* () => table.renameColumn(aliasMap[alias], alias) is called.
RenameStart ==
    \E i \in 1..Len(modifier.aliasMap) :
        /\ promise # Null
        /\ promise.state = "pending"
        /\ promise.run
        /\ i \notin promise.started
        /\ Resolved(promise, RenameAfter(i))
        /\ LET alias == Aliases(modifier.aliasMap)[i]
           IN  promise' =
                   [promise EXCEPT
                        !.started = @ \cup {i},
                        !.renames =
                            Append(@, [from |-> SourceOf(modifier.aliasMap,
                                                         alias),
                                       to |-> alias])]
        /\ UNCHANGED <<table, before, first, modifier, modifiers, inserted,
                       reverse, op, calls, events, result, json, modified,
                       args, frame>>

\* The deferred value of a rename resolves: the column is renamed.
RenameResolve ==
    \E i \in 1..Len(modifier.aliasMap) :
        /\ promise # Null
        /\ i \in promise.started
        /\ i \notin promise.resolved
        /\ promise' = [promise EXCEPT !.resolved = @ \cup {i}]
        /\ table' = renameColumn(table, modifier.aliasMap[i].source,
                                 modifier.aliasMap[i].alias)
        /\ UNCHANGED <<before, first, modifier, modifiers, inserted, reverse,
                       op, calls, events, result, json, modified, args,
                       frame>>

\* The last then: afterModify is emitted and the promise of the call
\* resolves with table.
ModifyTableResolve ==
    /\ promise # Null
    /\ promise.state = "pending"
    /\ promise.run
    /\ Resolved(promise, RenameAfter(Len(modifier.aliasMap) + 1))
    /\ promise' = [promise EXCEPT !.state = "resolved"]
    /\ events' = Append(events, Emit("afterModify", modifier, table))
    /\ result' = TableRef
    /\ UNCHANGED <<table, before, first, modifier, modifiers, inserted,
                   reverse, op, calls, json, modified, args, frame>>

NextSeriesPoints ==
    \/ ModifyTableCall
    \/ ModifyTableRun
    \/ RenameStart
    \/ RenameResolve
    \/ ModifyTableResolve

SpecSeriesPoints == InitSeriesPoints /\ [][NextSeriesPoints]_vars

\* The renames that were started and have not resolved.
InFlight == promise.started \ promise.resolved

\* C16: a modifyTable call emits modify before any rename starts; it calls
\* renameColumn(source, alias) once per entry of aliasMap, in the order of
\* the map, each one only after the one before it has resolved, so that
\* never two renames are in flight; afterModify is emitted, and the call
\* resolves with the table it was given, only after the last rename has
\* resolved.
C16_SequentialRenames ==
    promise # Null =>
        LET aliasMap == modifier.aliasMap
            n == Len(aliasMap)
        IN  /\ promise.started # {} =>
                   (events # <<>> /\ events[1].type = "modify")
            /\ Cardinality(InFlight) <= 1
            /\ Len(promise.renames) = Cardinality(promise.started)
            /\ \A k \in 1..Len(promise.renames) :
                   /\ k <= n
                   /\ promise.renames[k] = [from |-> aliasMap[k].source,
                                            to |-> aliasMap[k].alias]
            /\ \A i \in promise.started : i > 1 => (i - 1) \in promise.resolved
            /\ (\E k \in 1..Len(events) : events[k].type = "afterModify") =>
                   /\ promise.resolved = 1..n
                   /\ promise.state = "resolved"
            /\ promise.state = "resolved" =>
                   /\ result = TableRef
                   /\ Types(events) = <<"modify", "afterModify">>
                   /\ events[2].table = table
            /\ promise.state = "pending" => result = NoRef

\* A call with two aliases has resolved, and both renames changed the
\* table.
C16_Witness ==
    /\ promise # Null
    /\ promise.state = "resolved"
    /\ Len(promise.renames) = 2
    /\ result = TableRef
    /\ hasColumn(before, modifier.aliasMap[1].source)
    /\ hasColumn(before, modifier.aliasMap[2].source)
    /\ modifier.aliasMap[1].source # modifier.aliasMap[2].source
    /\ getColumnNames(table) =
           <<modifier.aliasMap[1].alias, modifier.aliasMap[2].alias>>

C18_MissingOrderByColumn ==
    (op = "modify" /\ ~hasColumn(before, modifier.orderByColumn)) =>
        /\ table = before
        /\ Types(events) = <<"execute", "afterExecute">>

\* C19: with no ranges, a range modifier leaves the table as it was and
\* emits execute, then afterExecute.
C19_EmptyRanges ==
    (op = "modify" /\ modifier.ranges = <<>>) =>
        /\ table = before
        /\ events = <<Emit("execute", modifier, before),
                      Emit("afterExecute", modifier, before)>>

\* A range modifier without ranges was called on a table with rows.
C19_Witness ==
    /\ op = "modify"
    /\ modifier.ranges = <<>>
    /\ getRowCount(before) = 2
    /\ getRowCount(table) = 2
    /\ Len(events) = 2

\* The call just made wrote the order into a column, by a column the
\* table has.
Ranked ==
    /\ op = "modify"
    /\ modifier.orderInColumn # ""
    /\ hasColumn(before, modifier.orderByColumn)

\* The 0-based position of row i of the table in its sorted order: the
\* rows that sort before it, and the rows above it that tie with it.
RankOf(t, i) ==
    LET key(j) == KeyValue(getColumn(t, modifier.orderByColumn)[j])
        n == getRowCount(t)
    IN  Cardinality({j \in 1..n :
            \/ IF modifier.direction = "asc" THEN key(j) < key(i)
                                             ELSE key(j) > key(i)
            \/ key(j) = key(i) /\ j < i})

\* C20: with orderInColumn set and orderByColumn a column of the table, a
\* sort keeps the rows in their order and every other column as it was,
\* and writes into orderInColumn each row's 0-based position in the sorted
\* order, a permutation of 0..n-1.
C20_OrderInColumn ==
    Ranked =>
        LET n == getRowCount(before)
            rank == modifier.orderInColumn
        IN  /\ getRowCount(table) = n
            /\ \A c \in 1..Len(getColumnNames(before)) :
                   getColumnNames(before)[c] # rank =>
                       /\ hasColumn(table, getColumnNames(before)[c])
                       /\ getColumn(table, getColumnNames(before)[c]) =
                              getColumn(before, getColumnNames(before)[c])
            /\ n > 0 =>
                   /\ getColumn(table, rank) =
                          [i \in 1..n |-> Num(RankOf(before, i))]
                   /\ {getColumn(table, rank)[i].n : i \in 1..n} = 0..(n - 1)
            /\ {getColumnNames(table)[c] : c \in 1..Len(getColumnNames(table))}
                   \subseteq {getColumnNames(before)[c] :
                                  c \in 1..Len(getColumnNames(before))}
                             \cup {rank}

\* Three rows with the values [3,1,2] and a tie aside were ranked: the
\* ranks are not in row order.
C20_Witness ==
    /\ Ranked
    /\ modifier.orderByColumn = "y"
    /\ modifier.direction = "asc"
    /\ getColumn(before, "y") = <<Num(3), Num(1), Num(2)>>
    /\ getColumn(table, "rank") = <<Num(2), Num(0), Num(1)>>
    /\ getColumn(table, "y") = <<Num(3), Num(1), Num(2)>>

(***************************************************************************)
(* A chain with a SeriesPointsModifier as its last child.  The child's     *)
(* modify hands back the promise of modifyTable; the loop of the chain     *)
(* goes on with it as its table.                                           *)
(***************************************************************************)
MaxPrefix == 1      \* synchronous children in front of the rename child

\* The reference to a promise, and what an event shows of it as its table.
PromiseRef == 2
Deferred == [deferred |-> TRUE]

\* modify of a SeriesPointsModifier: the promise of modifyTable.
SeriesPointsModify(ref) == PromiseRef

\* A loop that emits nothing for a child whose result is a promise, and
\* leaves afterExecute to the time the promise resolves.
ChainDeferredEventsAwait(child) ==
    <<EmitModifier("executeModifier", ChainSelf, child)>>

\* The loop of ChainModifier.modify on a child that hands back a promise,
\* and what follows the loop: table = modifier.modify(table),
\* afterExecuteModifier, afterExecute with the table the loop ended with.
ChainDeferredEvents(child) ==
    <<EmitModifier("executeModifier", ChainSelf, child),
      EmitModifier("afterExecuteModifier", ChainSelf, child),
      Emit("afterExecute", ChainSelf, Deferred)>>

InitChainRename ==
    /\ table \in SeriesPointsTables
    /\ before = table
    /\ first = table
    /\ \E a \in AliasMaps(MaxAliases) :
           modifier = [kind |-> "SeriesPoints", aliasMap |-> a]
    /\ \E prefix \in SeqsUpTo(ChainPool, MaxPrefix) :
           modifiers = prefix \o <<modifier>>
    /\ inserted = modifiers
    /\ reverse = FALSE
    /\ op = "init"
    /\ calls = 0
    /\ Idle

\* ChainModifier.modify(table) of a chain that ends with the rename child:
\* the synchronous children run, the rename child hands back its promise,
\* and the call returns.
ChainRenameCall ==
    /\ calls < MaxCalls
    /\ Settled(promise)
    /\ LET prefix == SubSeq(modifiers, 1, Len(modifiers) - 1)
       IN  /\ table' = ChainApply(prefix, 1, table)
           /\ events' = <<Emit("execute", ChainSelf, table)>>
                        \o ChainLoopEvents(prefix, 1, table)
                        \o ChainDeferredEvents(modifier)
           /\ result' = SeriesPointsModify(
                            ChainLoopReturns(prefix, 1, TableRef))
    /\ promise' = [state |-> "pending", run |-> FALSE, started |-> {},
                   resolved |-> {}, renames |-> <<>>]
    /\ before' = table
    /\ op' = "modify"
    /\ calls' = calls + 1
    /\ UNCHANGED <<first, modifier, modifiers, inserted, reverse, json,
                   modified, args, frame>>

NextChainRename ==
    \/ ChainRenameCall
    \/ ModifyTableRun
    \/ RenameStart
    \/ RenameResolve
    \/ ModifyTableResolve

SpecChainRename == InitChainRename /\ [][NextChainRename]_vars

\* The chain has emitted afterExecuteModifier for the rename child and its
\* afterExecute.
ChainReturned ==
    \E i, j \in 1..Len(events) :
        /\ i < j
        /\ events[i] = EmitModifier("afterExecuteModifier", ChainSelf,
                                    modifier)
        /\ events[j] = Emit("afterExecute", ChainSelf, Deferred)

WithDetail(evs, d) ==
    [i \in 1..Len(evs) |->
         [k \in DOMAIN evs[i] \cup {"detail"} |->
              IF k = "detail" THEN d ELSE evs[i][k]]]

\* The event detail of the caller: which call of theirs this is.
CallDetail(n) == [call |-> n]

LeafPool ==
    ChainPool \cup
    {[kind |-> "Sort", direction |-> "asc", orderByColumn |-> "y",
      orderInColumn |-> "rank"],
     [kind |-> "Range", strict |-> TRUE,
      ranges |-> <<[column |-> "y", minValue |-> Num(2), maxValue |-> Num(3)],
                   [column |-> "id", minValue |-> Num(0), maxValue |-> Num(0)]>>],
     [kind |-> "Group", groupColumn |-> "", validValues |-> Unset,
      invalidValues |-> List(<<Num(0)>>)]}

InitLeaf ==
    /\ table \in ChainTables(MaxChainRows)
    /\ before = table
    /\ first = table
    /\ modifier \in LeafPool
    /\ NoChain
    /\ op = "init"
    /\ calls = 0
    /\ Idle

\* modifier.modify(table, eventDetail) of a Sort, Range, Group or Invert
\* modifier.
LeafCall ==
    /\ calls < MaxCalls
    /\ table' = ModifierModify(modifier, table)
    /\ events' = WithDetail(ModifierEvents(modifier, table),
                            CallDetail(calls + 1))
    /\ result' = ModifierReturns(modifier, TableRef)
    /\ before' = table
    /\ op' = "modify"
    /\ calls' = calls + 1
    /\ UNCHANGED <<first, modifier, modifiers, inserted, reverse, json,
                   promise, modified, args, frame>>

NextLeaf == LeafCall

SpecLeaf == InitLeaf /\ [][NextLeaf]_vars

\* C22: a modify call of a leaf modifier emits two events: its before
\* event (execute for Sort and Range, modify for Group and Invert) with the
\* table as it was handed in, and its after event (afterExecute,
\* afterModify) with the table as the call leaves it; both carry the
\* caller's event detail.
C22_LeafEvents ==
    op = "modify" =>
        LET executes == modifier.kind \in {"Sort", "Range"}
        IN  /\ Len(events) = 2
            /\ events[1].type = IF executes THEN "execute" ELSE "modify"
            /\ events[1].by = modifier
            /\ events[1].table = before
            /\ events[1].detail = CallDetail(calls)
            /\ events[2].type =
                   IF executes THEN "afterExecute" ELSE "afterModify"
            /\ events[2].by = modifier
            /\ events[2].table = table
            /\ events[2].detail = CallDetail(calls)

\* A second call of a leaf modifier has changed the table again.
C22_Witness ==
    /\ op = "modify"
    /\ calls = 2
    /\ Len(events) = 2
    /\ events[1].table # first
    /\ events[2].table # events[1].table
    /\ events[2].detail = CallDetail(2)

(***************************************************************************)
(* Properties of the shape of an inverted table                            *)
(***************************************************************************)
\* The names of the columns of a table, as a set.
NameSet(t) == {getColumnNames(t)[c] : c \in 1..Len(getColumnNames(t))}

\* C23: inverting a table without a column columnNames, of n rows and
\* headers h, gives the columns "0".."n-1", column "i" with the cells of
\* row i in header order, and the column columnNames with h; inverting a
\* table with a column columnNames gives a table without it whose columns
\* are named by the values that column had.
C23_InvertShape ==
    op = "modify" =>
        IF ~hasColumn(before, "columnNames")
            THEN LET n == getRowCount(before)
                 IN  /\ getColumnNames(table) =
                            [i \in 1..n |-> NumToString(i - 1)]
                            \o <<"columnNames">>
                     /\ \A i \in 1..n :
                            getColumn(table, NumToString(i - 1)) =
                                getRow(before, i)
                     /\ getColumn(table, "columnNames") =
                            [j \in 1..Len(getColumnNames(before)) |->
                                 Str(getColumnNames(before)[j])]
            ELSE LET former == getColumn(before, "columnNames")
                 IN  /\ ~hasColumn(table, "columnNames")
                     /\ NameSet(table) =
                            {CellToString(former[i]) : i \in 1..Len(former)}

InvertedForm(t) ==
    LET n == Len(getColumnNames(t)) - 1
    IN  getColumnNames(t) = [i \in 1..n |-> NumToString(i - 1)] \o <<"columnNames">>

\* C24 as stated: a table that has a data column named columnNames before any
\* inversion is never given back by inverting it twice.
C24_SentinelCollision ==
    (calls = 2 /\ hasColumn(first, "columnNames")) => table # first

\* C24: a table with a column named columnNames takes the un-invert branch on
\* the first call (columnNames is deleted and its values name the columns
\* built from the rows left), and two calls do not give the table back unless
\* its columns already are "0".."n-1" followed by columnNames, the form the
\* regular branch produces.
C24_SentinelCollisionUnlessInverted ==
    /\ (calls = 1 /\ hasColumn(first, "columnNames")) =>
           LET rest == deleteColumn(first, "columnNames")
               former == getColumn(first, "columnNames")
           IN  /\ ~(/\ hasColumn(table, "columnNames")
                     /\ getColumn(table, "columnNames") =
                            [j \in 1..Len(getColumnNames(first)) |->
                                 Str(getColumnNames(first)[j])])
               /\ NameSet(table) = {CellToString(former[i]) : i \in 1..getRowCount(rest)}
    /\ (calls = 2 /\ hasColumn(first, "columnNames") /\ ~InvertedForm(first)) =>
           table # first

C24_Witness ==
    /\ calls = 2
    /\ hasColumn(first, "columnNames")
    /\ ~InvertedForm(first)
    /\ getRowCount(first) = 2
    /\ Len(getColumnNames(first)) = 2
    /\ table # first

(***************************************************************************)
(* Partial modifications of InvertModifier and GroupModifier: modifyCell,  *)
(* modifyColumns and modifyRows                                            *)
(***************************************************************************)
\* table.clone(): a table of its own with the same columns.
clone(t) == t

\* table.getColumns(): the columns of the table as a collection.
getColumns(t) == t

\* A modifyCell that puts the changed cell into the clone before modifying it.
modifyCellApplied(m, t, view, columnName, rowIndex, cellValue) ==
    setColumns(view, getColumns(ModifierModify(m,
        setCell(clone(t), rowIndex + 1, columnName, cellValue))))

\* table.modified.setColumns(this.modify(table.clone()).getColumns()):
\* the view the call leaves in table.modified.
modifyCell(m, t, view, columnName, rowIndex, cellValue) ==
    setColumns(view, getColumns(ModifierModify(m, clone(t))))

modifyColumns(m, t, view, columns, rowIndex) ==
    setColumns(view, getColumns(ModifierModify(m, clone(t))))

modifyRows(m, t, view, rows, rowIndex) ==
    setColumns(view, getColumns(ModifierModify(m, clone(t))))

PartialPool == {m \in LeafPool : m.kind \in {"Invert", "Group"}}

PartialCells == {Num(1), Num(7)}

\* The modified view starts without columns or with the table's columns.
InitPartial ==
    /\ table \in ChainTables(MaxChainRows)
    /\ before = table
    /\ first = table
    /\ modifier \in PartialPool
    /\ NoChain
    /\ op = "init"
    /\ calls = 0
    /\ events = <<>>
    /\ result = NoRef
    /\ json = Null
    /\ promise = Null
    /\ modified \in {EmptyTable, clone(table)}
    /\ args = <<>>
    /\ frame = Null

\* What modifyCell, modifyColumns and modifyRows have in common: the events
\* of modify on the clone, the table untouched and returned.
PartialCall(name) ==
    /\ calls < MaxCalls
    /\ events' = ModifierEvents(modifier, clone(table))
    /\ result' = TableRef
    /\ before' = table
    /\ op' = name
    /\ calls' = calls + 1
    /\ UNCHANGED <<table, first, modifier, modifiers, inserted, reverse, json,
                   promise, frame>>

\* modifier.modifyCell(table, columnName, rowIndex, cellValue)
ModifyCellCall ==
    \E columnName \in {"id", "y"}, rowIndex \in 0..(MaxChainRows - 1),
       cellValue \in PartialCells :
        /\ PartialCall("modifyCell")
        /\ modified' = modifyCell(modifier, table, modified,
                                  columnName, rowIndex, cellValue)
        /\ args' = <<columnName, rowIndex, cellValue>>

\* modifier.modifyColumns(table, columns, rowIndex)
ModifyColumnsCall ==
    \E cell \in PartialCells, rowIndex \in 0..(MaxChainRows - 1) :
        LET columns == [names |-> <<"y">>, cols |-> <<<<cell>>>>]
        IN  /\ PartialCall("modifyColumns")
            /\ modified' = modifyColumns(modifier, table, modified,
                                         columns, rowIndex)
            /\ args' = <<columns, rowIndex>>

\* modifier.modifyRows(table, rows, rowIndex)
ModifyRowsCall ==
    \E cell \in PartialCells, rowIndex \in 0..(MaxChainRows - 1) :
        LET rows == <<<<Num(rowIndex), cell>>>>
        IN  /\ PartialCall("modifyRows")
            /\ modified' = modifyRows(modifier, table, modified,
                                      rows, rowIndex)
            /\ args' = <<rows, rowIndex>>

NextPartial == ModifyCellCall \/ ModifyColumnsCall \/ ModifyRowsCall

SpecPartial == InitPartial /\ [][NextPartial]_vars

PartialOps == {"modifyCell", "modifyColumns", "modifyRows"}

\* C25: modifyCell, modifyColumns and modifyRows of the invert and the group
\* modifier leave the table as it was handed in and return it; whatever the
\* cell, columns or rows they are called with, every column of the full
\* modify of the table is afterwards a column of the table's modified view,
\* and the events are those of that modify.
C25_PartialIntoModifiedView ==
    op \in PartialOps =>
        LET full == ModifierModify(modifier, before)
        IN  /\ table = before
            /\ result = TableRef
            /\ events = ModifierEvents(modifier, before)
            /\ \A j \in 1..Len(getColumnNames(full)) :
                   /\ hasColumn(modified, getColumnNames(full)[j])
                   /\ getColumn(modified, getColumnNames(full)[j]) =
                          Pad(full.cols[j], getRowCount(modified))

\* A modifyCell with a cell value the table does not hold, after which the
\* modified view differs from the table.
C25_Witness ==
    /\ op = "modifyCell"
    /\ args = <<"y", 0, Num(7)>>
    /\ getRowCount(table) = 2
    /\ modifier.kind = "Group"
    /\ modified # table
    /\ table = first

(***************************************************************************)
(* Properties of add, clear and remove on the stored sequence              *)
(***************************************************************************)
\* C26: add(m) puts m at the end of the chain and leaves the entries before
\* it and their order alone, so the chain grows by one even if it held m
\* already; after clear() the chain is empty.
C26_AddAppendsClearEmpties ==
    /\ op = "add" =>
           /\ Len(modifiers) = Len(before) + 1
           /\ SubSeq(modifiers, 1, Len(before)) = before
           /\ modifiers[Len(modifiers)] = events[1].modifier
    /\ op = "clear" => modifiers = <<>>

\* A modifier was added that the chain already held.
C26_Witness ==
    /\ op = "add"
    /\ Len(before) = 2
    /\ before[1] = events[1].modifier
    /\ before[2] # events[1].modifier
    /\ modifiers = <<before[1], before[2], before[1]>>

\* C27: remove(m) with an m the chain does not hold leaves the stored
\* sequence as it is, and still emits removeModifier and afterRemoveModifier.
C27_RemoveAbsent ==
    (op = "remove" /\ IndexOf(before, events[1].modifier) = 0) =>
        /\ modifiers = before
        /\ Types(events) = <<"removeModifier", "afterRemoveModifier">>

(***************************************************************************)
(* ChainModifier.modify step by step, with listeners that add to, remove   *)
(* from or clear the same chain while the call is under way                *)
(***************************************************************************)
MaxListenerCalls == 1

\* The tables of these runs: what the children do to them is not at stake.
ReentrantTables == ChainTables(1)

\* The local array modifiers of the running call: this.modifiers itself
\* after reverse(), the copy made by slice() otherwise.
LocalModifiers == IF frame.alias THEN modifiers ELSE frame.slice

Running == frame # Null /\ frame.state = "running"

InitReentrant ==
    /\ table \in ReentrantTables
    /\ before = table
    /\ first = table
    /\ modifier = ChainSelf
    /\ modifiers \in SeqsUpTo(ChainPool, MaxChain)
    /\ inserted = modifiers
    /\ reverse \in BOOLEAN
    /\ op = "init"
    /\ calls = 0
    /\ Idle

\* modify is entered: the local array is made, i and iEnd are set and
\* execute is emitted.
ModifyEnter ==
    /\ frame = Null
    /\ modifiers' = ChainStored(modifiers, reverse)
    /\ frame' = [state |-> "running",
                 alias |-> reverse,
                 slice |-> IF reverse THEN <<>> ELSE modifiers,
                 start |-> ChainOrder(modifiers, reverse),
                 i |-> 0,
                 iEnd |-> Len(modifiers),
                 executed |-> <<>>,
                 listened |-> 0]
    /\ events' = <<Emit("execute", ChainSelf, table)>>
    /\ before' = table
    /\ op' = "modify"
    /\ calls' = calls + 1
    /\ UNCHANGED <<table, first, modifier, inserted, reverse, result, json,
                   promise, modified, args>>

\* One turn of the loop: modifier = modifiers[i], executeModifier, the
\* child's modify, afterExecuteModifier. Without an entry at i the call of
\* modify on undefined throws.
ModifyStep ==
    /\ Running
    /\ frame.i < frame.iEnd
    /\ IF frame.i + 1 <= Len(LocalModifiers)
           THEN LET child == LocalModifiers[frame.i + 1]
                IN  /\ table' = ModifierModify(child, table)
                    /\ events' = events
                           \o <<EmitModifier("executeModifier", ChainSelf, child)>>
                           \o ModifierEvents(child, table)
                           \o <<EmitModifier("afterExecuteModifier", ChainSelf, child)>>
                    /\ frame' = [frame EXCEPT !.i = @ + 1,
                                              !.executed = Append(@, child)]
           ELSE /\ table' = table
                /\ events' = events
                       \o <<EmitModifier("executeModifier", ChainSelf, Undefined)>>
                /\ frame' = [frame EXCEPT !.state = "thrown"]
    /\ UNCHANGED <<before, first, modifier, modifiers, inserted, reverse, op,
                   calls, result, json, promise, modified, args>>

\* The loop is over: afterExecute is emitted and the table returned.
ModifyLeave ==
    /\ Running
    /\ frame.i = frame.iEnd
    /\ events' = Append(events, Emit("afterExecute", ChainSelf, table))
    /\ result' = TableRef
    /\ frame' = [frame EXCEPT !.state = "returned"]
    /\ UNCHANGED <<table, before, first, modifier, modifiers, inserted,
                   reverse, op, calls, json, promise, modified, args>>

\* What a listener's call of add, remove or clear leaves behind.
Listened(stored, evs) ==
    /\ Running
    /\ frame.listened < MaxListenerCalls
    /\ modifiers' = stored
    /\ events' = events \o evs
    /\ frame' = [frame EXCEPT !.listened = @ + 1]
    /\ UNCHANGED <<table, before, first, modifier, inserted, reverse, op,
                   calls, result, json, promise, modified, args>>

\* A listener of the running call calls chain.add(m).
ListenerAdd ==
    \E m \in ChainPool :
        /\ Len(modifiers) < MaxEdit
        /\ Listened(ChainAdd(modifiers, m),
                    <<EmitModifier("addModifier", ChainSelf, m),
                      EmitModifier("addModifier", ChainSelf, m)>>)

\* A listener of the running call calls chain.remove(m).
ListenerRemove ==
    \E m \in ChainPool :
        Listened(ChainRemove(modifiers, m),
                 <<EmitModifier("removeModifier", ChainSelf, m),
                   EmitModifier("afterRemoveModifier", ChainSelf, m)>>)

\* A listener of the running call calls chain.clear().
ListenerClear ==
    Listened(ChainClear(modifiers),
             <<EmitPlain("clearChain", ChainSelf),
               EmitPlain("afterClearChain", ChainSelf)>>)

NextReentrant ==
    \/ ModifyEnter
    \/ ModifyStep
    \/ ModifyLeave
    \/ ListenerAdd
    \/ ListenerRemove
    \/ ListenerClear

SpecReentrant == InitReentrant /\ [][NextReentrant]_vars

\* C28: whatever listeners add to, remove from or clear in the chain while
\* modify runs, the call executes the children the chain had when it
\* started, in their order and each once: it never fails on the way, what
\* it has executed is always the beginning of that sequence, and all of it
\* once the call has returned.
C28_ChildrenFixedAtStart ==
    frame # Null =>
        /\ frame.state # "thrown"
        /\ frame.executed = SubSeq(frame.start, 1, Len(frame.executed))
        /\ frame.state = "returned" => frame.executed = frame.start

\* C28 for calls without the reverse option, whose local array is a copy.
C28_ForwardOnly ==
    (frame # Null /\ ~frame.alias) =>
        /\ frame.state # "thrown"
        /\ frame.executed = SubSeq(frame.start, 1, Len(frame.executed))
        /\ frame.state = "returned" => frame.executed = frame.start

(***************************************************************************)
(* RangeModifier: ranges that collect no row                               *)
(***************************************************************************)
\* The range collects no row of t: it is skipped for its bounds of two
\* types under strict, it names a column t does not have, or no cell of its
\* column lies within its bounds.
CollectsNothing(t, range, strict) ==
    \/ strict /\ TypeOf(range.minValue) # TypeOf(range.maxValue)
    \/ ~hasColumn(t, range.column)
    \/ \A j \in 1..getRowCount(t) :
           LET cell == getColumn(t, range.column)[j]
           IN  \/ ~Comparable(cell)
               \/ strict /\ TypeOf(cell) # TypeOf(range.minValue)
               \/ ~JSLessEq(range.minValue, cell)
               \/ ~JSLessEq(cell, range.maxValue)

\* C29: with ranges configured of which none collects a row, modify leaves
\* the table without rows (its columns stay), not as it was.
C29_NoRowCollected ==
    (/\ op = "modify"
     /\ modifier.ranges # <<>>
     /\ \A i \in 1..Len(modifier.ranges) :
            CollectsNothing(before, modifier.ranges[i], modifier.strict)) =>
        /\ getRowCount(table) = 0
        /\ getColumnNames(table) = getColumnNames(before)

\* A strict modifier with a range on a missing column and a range with
\* bounds of two types was called on a table with two rows.
C29_Witness ==
    /\ op = "modify"
    /\ calls = 1
    /\ modifier.strict
    /\ Len(modifier.ranges) = 2
    /\ modifier.ranges[1].column = "z"
    /\ TypeOf(modifier.ranges[2].minValue) # TypeOf(modifier.ranges[2].maxValue)
    /\ getRowCount(before) = 2
    /\ getRowCount(table) = 0
    /\ table # before

(***************************************************************************)
(* SortModifier: sorting again, and the two comparators side by side       *)
(***************************************************************************)
CompareCells ==
    {Num(-1), Num(0), Num(2), Str(""), Str("1"), Str("a"), Bool(TRUE),
     Bool(FALSE), Undefined, Nested(EmptyTable)}

\* Either a table to sort, or a pair of cells for the comparators.
InitCompare ==
    /\ \/ table \in SortTables(MaxSortRows) /\ args = <<>>
       \/ table = EmptyTable /\ args \in CompareCells \X CompareCells
    /\ before = table
    /\ first = table
    /\ modifier \in SortModifiers
    /\ NoChain
    /\ op = "init"
    /\ calls = 0
    /\ events = <<>>
    /\ result = NoRef
    /\ json = Null
    /\ promise = Null
    /\ modified = EmptyTable
    /\ frame = Null

\* SortModifier.ascending(a, b), SortModifier.ascending(b, a) and
\* SortModifier.descending(a, b) on the pair of cells.
CompareCall ==
    /\ Len(args) = 2
    /\ args' = args \o <<ascending(args[1], args[2]),
                         ascending(args[2], args[1]),
                         descending(args[1], args[2])>>
    /\ UNCHANGED <<table, before, first, modifier, modifiers, inserted,
                   reverse, op, calls, events, result, json, promise,
                   modified, frame>>

NextCompare == SortCall \/ CompareCall

SpecCompare == InitCompare /\ [][NextCompare]_vars

\* C30: a sort that reorders the rows, applied again with the same options
\* to what it made of the table, changes nothing; and for any two cells
\* descending(a, b) is ascending(b, a), and ascending(a, b) is the negative
\* of ascending(b, a).
C30_ResortAndMirror ==
    /\ (op = "modify" /\ modifier.orderInColumn = "" /\ calls >= 2) =>
           table = before
    /\ Len(args) = 5 =>
           /\ args[5] = args[4]
           /\ args[3] = 0 - args[4]

\* A descending sort moved rows with a tie and an undefined cell among
\* them, and the second call left them where they were.
C30_Witness ==
    /\ op = "modify"
    /\ calls = 2
    /\ modifier.orderInColumn = ""
    /\ modifier.orderByColumn = "y"
    /\ modifier.direction = "desc"
    /\ getColumn(first, "y") = <<Undefined, Num(2), Num(2)>>
    /\ before # first
    /\ table = before

\* The comparators were applied to a string and a number, which compare as
\* neither less nor greater.
C30_WitnessMixed ==
    /\ args = <<Str("a"), Num(2), 0, 0, 0>>

====
